---- MODULE Spec2Model ----
(***************************************************************************)
(* Model of the BudapestAgent LangGraph agent (src/agent.py, class Agent)  *)
(* as it is run by the chat tab of src/app.py.                             *)
(*   Spec      one run of budapest_agent.graph.invoke on an AgentState     *)
(*   AppSpec   the chat tab: prompts, script reruns and the turns they run *)
(*   LedgerSpec  a run on any ledger the state schema admits               *)
(*   PairSpec  a run while another run of the shared agent executes nodes  *)
(*   ItinSpec  create_itinerary of src/itinerary_agent.py                  *)
(*   FnSpec    one call of attraction_info_tool or extract_attraction_names*)
(*                                                                         *)
(* Text is modelled as a sequence of string tokens, so that an f-string    *)
(* is the concatenation of its pieces.  The three language models and the  *)
(* capability handlers are external: their outputs are chosen with \E.     *)
(***************************************************************************)
EXTENDS Integers, Sequences, FiniteSets, TLC

VARIABLES
    pc,               \* node the graph runs next, or END / RAISED / ABORTED
    steps,            \* number of nodes executed so far (supersteps)
    aliased,          \* does a node receive the channel's own list object?
    messages,         \* AgentState.messages      (reducer operator.add)
    reasoning_output, \* AgentState.reasoning_output
    next_step,        \* AgentState.next_step
    tool_history,     \* AgentState.tool_history  (reducer operator.add)
    has_used_tools,   \* AgentState.has_used_tools
    user_query,       \* AgentState.user_query
    input_messages,   \* the ledger the caller supplied (history variable)
    oracle_calls,     \* log of language-model calls: model, input, output
    handler_calls,    \* log of capability handler invocations
    action_log,       \* requests seen and results returned by take_action
    error,            \* str(e) of the exception that left graph.invoke
    registry,         \* Agent.tools: the names that resolve to a handler
    app_pc,           \* chat tab script: idle / rerun / invoking
    session_messages, \* st.session_state.messages
    session_reasoning,\* st.session_state.reasoning
    transport_mode,   \* the sidebar's transport mode selectbox
    turn_log,         \* processed turns: did the run raise, what was appended
    peer_pc,          \* node another run of the shared agent executes next
    it_pc,            \* create_itinerary: the statement block it executes next
    preferences,      \* create_itinerary's argument
    attractions,      \* create_itinerary: attractions
    selected_attractions, \* create_itinerary: selected_attractions
    routes,           \* create_itinerary: routes
    current_location, \* create_itinerary: current_location
    lookups,          \* log of the calls create_itinerary made, with results
    itinerary,        \* what create_itinerary returned
    fn_pc,            \* a function call: "none", "called", "returned", "raised"
    fn_call,          \* the function called and its argument
    fn_oracle,        \* the model calls the function made, with their outcome
    fn_result         \* what the function returned

appvars == <<app_pc, session_messages, session_reasoning, transport_mode, turn_log>>

itinvars == <<it_pc, preferences, attractions, selected_attractions, routes,
              current_location, lookups, itinerary>>

runvars == <<pc, steps, aliased, messages, reasoning_output, next_step,
             tool_history, has_used_tools, user_query, input_messages,
             oracle_calls, handler_calls, action_log, error, registry>>

fnvars == <<fn_pc, fn_call, fn_oracle, fn_result>>

vars == <<runvars, appvars, peer_pc, itinvars, fnvars>>

-----------------------------------------------------------------------------
(* Bounds of the model *)

MaxPriorTurns == 1      \* earlier user/assistant turns re-supplied by the caller
MaxBatch == 2           \* invocation requests in one assistant message
MaxTurns == 2           \* prompts submitted in one chat session
MaxTime == 9            \* available_time ranges over -MaxTime..MaxTime
MaxExtracted == 7       \* names the extraction can return
MaxPlaces == 2          \* results of one nearby search
MaxInterests == 2       \* interests selected in the form
MaxAsked == 2           \* attractions named in one attraction_info_tool call
MaxWords == 7           \* words of the text given to extract_attraction_names
MaxListed == 2          \* names in the JSON array the model answers with

(* Program constants *)

recursion_limit == 15
ArgsLimit == 100
ResultLimit == 300
SummaryArgsLimit == 50
AttractionCap == 5      \* min(..., 5) in create_itinerary
NearbyThreshold == 3    \* len(attractions) < 3
PlacesLimit == 5        \* data.get("results", [])[:5]
FallbackLimit == 3      \* potential_attractions[:3]

None == <<"None">>      \* Python None for the optional text channels

-----------------------------------------------------------------------------
(* Messages (langchain_core.messages) *)

Msg(t, c, tc, id, n) ==
    [type |-> t, content |-> c, tool_calls |-> tc, tool_call_id |-> id, name |-> n]

HumanMessage(c) == Msg("human", c, <<>>, 0, "")
SystemMessage(c) == Msg("system", c, <<>>, 0, "")
AIMessage(c, tc) == Msg("ai", c, tc, 0, "")
ToolMessage(id, n, c) == Msg("tool", c, <<>>, id, n)

\* hasattr(m, 'tool_calls'): only AIMessage has the attribute
HasAttrToolCalls(m) == m.type = "ai"

Last(s) == s[Len(s)]

RECURSIVE Concat(_)
Concat(ss) == IF ss = <<>> THEN <<>> ELSE Head(ss) \o Concat(Tail(ss))

\* the Agent's system prompt (module-level `prompt`), non-empty
system == <<"prompt">>

\* Agent.tools: names of the registered capabilities
tools == {"parse_input_tool", "directions_tool", "attractions_tool",
          "extract_attractions_tool", "attraction_info_tool"}

-----------------------------------------------------------------------------
(* What the external collaborators can produce *)

Queries == {<<"q1">>}

PriorTurn == <<HumanMessage(<<"q0">>), AIMessage(<<"a0">>, <<>>)>>

RECURSIVE PriorTurns(_)
PriorTurns(k) == IF k = 0 THEN <<>> ELSE PriorTurn \o PriorTurns(k - 1)

\* chat tab: previous_messages + [agent_input]
InputLedgers ==
    { PriorTurns(k) \o <<HumanMessage(q)>> : k \in 0..MaxPriorTurns, q \in Queries }

\* names an invocation request can carry: registered ones and an unknown one
RequestNames == {"directions_tool", "attractions_tool", "bogus_tool"}
RequestArgs == {"args", "longargs"}

ToolCall(id, n, a) == [id |-> id, name |-> n, args |-> a]

ToolCalls == { ToolCall(id, n, a) : id \in 1..MaxBatch, n \in RequestNames, a \in RequestArgs }

\* batches: sequences of requests with pairwise distinct ids
Batches ==
    UNION { { b \in [1..k -> ToolCalls] :
                \A i, j \in 1..k : i # j => b[i].id # b[j].id } : k \in 0..MaxBatch }

\* handler outcomes: a returned value or a raised exception with its text
HandlerOutcomes ==
    { [raised |-> FALSE, value |-> v] : v \in {"route", "bigresult"} }
      \cup { [raised |-> TRUE, value |-> "timeout"] }

\* str() of the handler values and their nominal lengths in characters
StrLen(tok) ==
    CASE tok = "bigresult" -> 301
      [] tok = "longargs" -> 101
      [] OTHER -> 5

Prefix(tok, n) ==
    CASE tok = "bigresult" /\ n = ResultLimit -> "bigresult[:300]"
      [] tok = "longargs" /\ n = ArgsLimit -> "longargs[:100]"
      [] tok = "longargs" /\ n = SummaryArgsLimit -> "longargs[:50]"
      [] OTHER -> tok

\* raw output of the reasoning model: a sequence of fenced blocks
Block(tag, body) == [tag |-> tag, body |-> body]

ReasoningBodies == {<<" ", "why", " ">>}
DecisionBodies == {<<"use_tools">>, <<"respond_directly">>,
                   <<" ", "respond_directly", " ">>, <<"maybe">>, <<>>}

ReasonOutputs ==
    { r \o d : r \in {<<>>} \cup { <<Block("reasoning", b)>> : b \in ReasoningBodies },
               d \in {<<>>} \cup { <<Block("decision", b)>> : b \in DecisionBodies } }

-----------------------------------------------------------------------------
(* Parsing of the reasoning output (reason_about_request) *)

IsSpace(tok) == tok = " "

RECURSIVE LStrip(_)
LStrip(s) == IF s # <<>> /\ IsSpace(Head(s)) THEN LStrip(Tail(s)) ELSE s

RECURSIVE RStrip(_)
RStrip(s) ==
    IF s # <<>> /\ IsSpace(Last(s)) THEN RStrip(SubSeq(s, 1, Len(s) - 1)) ELSE s

Strip(s) == RStrip(LStrip(s))

\* re.search(r'```<tag>\s*(.*?)\s*```', content, re.DOTALL): first block or no match
ReSearch(tag, out) ==
    LET hits == { i \in 1..Len(out) : out[i].tag = tag }
    IN IF hits = {} THEN [found |-> FALSE, group |-> <<>>]
       ELSE [found |-> TRUE,
             group |-> Strip(out[CHOOSE i \in hits : \A j \in hits : i <= j].body)]

ParseReasoning(out) ==
    LET m == ReSearch("reasoning", out)
    IN IF m.found THEN Strip(m.group) ELSE <<"No explicit reasoning provided.">>

ParseDecision(out) ==
    LET m == ReSearch("decision", out)
    IN IF m.found THEN Strip(m.group) ELSE <<"use_tools">>

\* user_messages[-1].content if user_messages else ""
LastUserQuery(msgs) ==
    LET idx == { i \in 1..Len(msgs) : msgs[i].type = "human" }
    IN IF idx = {} THEN <<>>
       ELSE msgs[CHOOSE i \in idx : \A j \in idx : j <= i].content

-----------------------------------------------------------------------------
(* Routing *)

\* variant: the branch depends on the length of the supplied ledger as well
determine_next_step_by_history(ns) ==
    IF Len(input_messages) > 1 THEN <<"use_tools">> ELSE ns

\* state.get('next_step', 'use_tools')
determine_next_step(ns) == ns

\* the reason node's conditional edge: a value missing from the map is a KeyError
ReasonEdge(ns) ==
    CASE determine_next_step(ns) = <<"use_tools">> -> "llm"
      [] determine_next_step(ns) = <<"respond_directly">> -> "END"
      [] OTHER -> "RAISED"

\* variant: the length test on tool_calls is left out
exists_action_attr_only(msgs) == HasAttrToolCalls(Last(msgs))

exists_action(msgs) ==
    HasAttrToolCalls(Last(msgs)) /\ Len(Last(msgs).tool_calls) > 0

\* variant: the two targets of the llm node's conditional edge are exchanged
LlmEdge_swapped(msgs) == IF exists_action(msgs) THEN "finalize" ELSE "action"

LlmEdge(msgs) == IF exists_action(msgs) THEN "action" ELSE "finalize"

\* variant: looks for requests in any ledger entry instead of the last one
should_continue_any_request(msgs) ==
    \E i \in 1..Len(msgs) : HasAttrToolCalls(msgs[i]) /\ Len(msgs[i].tool_calls) > 0

should_continue(msgs) ==
    HasAttrToolCalls(Last(msgs)) /\ Len(Last(msgs).tool_calls) > 0

ActionEdge(msgs) == IF should_continue(msgs) THEN "llm" ELSE "finalize"

\* a further superstep is refused once recursion_limit supersteps have run
Goto(node, s) ==
    IF node \in {"END", "RAISED"} THEN node
    ELSE IF s >= recursion_limit THEN "ABORTED"
    ELSE node

\* one call of a language model: the node making it, which model, its input
\* messages, what came back
OracleCall(node, model, input, output) ==
    [node |-> node, model |-> model, input |-> input, output |-> output]

\* outputs of a language-model call: a message, or an exception
Returned(content, tc) == [raised |-> FALSE, content |-> content, tool_calls |-> tc]
Raised == [raised |-> TRUE, content |-> <<>>, tool_calls |-> <<>>]

\* str(e) of the exceptions that can leave a node
OracleErrorTexts == {<<"Request timed out.">>, <<"Connection error.">>}
KeyErrorText(key) == <<"'">> \o key \o <<"'">>
RecursionErrorText == <<"Recursion limit of 15 reached without hitting a stop condition">>

\* the error graph.invoke raises when routing ends in node
AbortText(node) == IF node = "ABORTED" THEN RecursionErrorText ELSE <<>>

-----------------------------------------------------------------------------
(* create_itinerary has not been called *)

NoPreferences ==
    [start_location |-> <<>>, interests |-> <<>>, available_time |-> 0,
     transport_mode |-> "", special_requests |-> <<>>]

NoItinerary ==
    /\ it_pc = "idle"
    /\ preferences = NoPreferences
    /\ attractions = <<>>
    /\ selected_attractions = <<>>
    /\ routes = <<>>
    /\ current_location = <<>>
    /\ lookups = <<>>
    /\ itinerary = <<>>

NoCall ==
    /\ fn_pc = "none"
    /\ fn_call = [fn |-> "", arg |-> <<>>]
    /\ fn_oracle = <<>>
    /\ fn_result = <<>>

-----------------------------------------------------------------------------
(* Initial state: graph.invoke as called by the chat tab *)

Init ==
    /\ pc = "reason"
    /\ steps = 0
    /\ aliased \in BOOLEAN
    /\ input_messages \in InputLedgers
    /\ messages = input_messages
    /\ reasoning_output = None
    /\ next_step = None
    /\ tool_history = <<>>
    /\ has_used_tools = FALSE
    /\ user_query = Last(input_messages).content
    /\ oracle_calls = <<>>
    /\ handler_calls = <<>>
    /\ action_log = <<>>
    /\ error = <<>>
    /\ registry = tools
    /\ app_pc = "invoking"
    /\ session_messages = input_messages
    /\ session_reasoning = <<>>
    /\ transport_mode = "Tomegkozlekedes"
    /\ turn_log = <<>>
    /\ peer_pc = "none"
    /\ NoItinerary
    /\ NoCall

-----------------------------------------------------------------------------
(* Node "reason": Agent.reason_about_request *)

\* the tool-bound model answers with text and possibly invocation requests
ModelOutputs == { Returned(<<"answer">>, b) : b \in Batches } \cup {Raised}

ReasonModelOutputs == { Returned(r, <<>>) : r \in ReasonOutputs } \cup {Raised}

reasoning_messages(msgs) == <<SystemMessage(<<"reasoning_system">>)>> \o msgs

direct_response_messages(msgs) ==
    <<SystemMessage(system \o <<"direct_response_suffix">>)>> \o msgs

\* the node failed: its writes are discarded and the exception leaves invoke
NodeFails(calls, e) ==
    /\ pc' = "RAISED"
    /\ error' = e
    /\ steps' = steps + 1
    /\ oracle_calls' = oracle_calls \o calls
    /\ UNCHANGED <<aliased, messages, reasoning_output, next_step, tool_history,
                   has_used_tools, user_query, input_messages, handler_calls,
                   action_log, registry, appvars, peer_pc, itinvars, fnvars>>

\* the 'messages' value the reason node returns (the state's own list, with the
\* direct response appended to it on the respond_directly path)
ReasonReturnedMessages(msgs, ns, direct) ==
    IF ns = <<"respond_directly">> THEN msgs \o <<AIMessage(direct.content, direct.tool_calls)>>
    ELSE msgs

\* the channel's list as the reducer sees it: messages.append mutated it in
\* place when the node was handed the channel's own list
ReasonChannelMessages(msgs, ns, direct) ==
    IF aliased THEN ReasonReturnedMessages(msgs, ns, direct) ELSE msgs

reason_about_request ==
    /\ pc = "reason"
    /\ \E r \in ReasonModelOutputs, direct \in ModelOutputs :
         LET call1 == OracleCall("reason", "reason_model", reasoning_messages(messages), r)
             reasoning == ParseReasoning(r.content)
             ns == ParseDecision(r.content)
             call2 == OracleCall("reason", "model", direct_response_messages(messages), direct)
             responds == ns = <<"respond_directly">>
         IN IF r.raised THEN
                /\ direct = Raised
                /\ (\E e \in OracleErrorTexts : NodeFails(<<call1>>, e))
            ELSE IF responds /\ direct.raised THEN
                (\E e \in OracleErrorTexts : NodeFails(<<call1, call2>>, e))
            ELSE IF ReasonEdge(ns) = "RAISED" THEN
                /\ direct = Raised
                /\ NodeFails(<<call1>>, KeyErrorText(determine_next_step(ns)))
            ELSE
                /\ responds \/ direct = Raised   \* no second call is made
                /\ oracle_calls' = oracle_calls \o
                       (IF responds THEN <<call1, call2>> ELSE <<call1>>)
                /\ messages' = ReasonChannelMessages(messages, ns, direct)
                                  \o ReasonReturnedMessages(messages, ns, direct)
                /\ reasoning_output' = reasoning
                /\ next_step' = ns
                /\ tool_history' = tool_history \o <<>>
                /\ has_used_tools' = FALSE
                /\ user_query' = LastUserQuery(messages)
                /\ steps' = steps + 1
                /\ pc' = Goto(ReasonEdge(ns), steps + 1)
                /\ error' = AbortText(Goto(ReasonEdge(ns), steps + 1))
                /\ UNCHANGED <<aliased, input_messages, handler_calls, action_log,
                               registry, appvars, peer_pc, itinvars, fnvars>>

-----------------------------------------------------------------------------
(* Node "llm": Agent.call_openai *)

tool_system(reasoning) ==
    system \o <<"I've analyzed the user's request and here's my reasoning:">>
           \o reasoning \o <<"Based on this reasoning, I'll now use the appropriate tools">>

SystemIndexes(msgs) == { i \in 1..Len(msgs) : msgs[i].type = "system" }

FirstSystemIndex(msgs) ==
    CHOOSE i \in SystemIndexes(msgs) : \A j \in SystemIndexes(msgs) : i <= j

\* the list handed to the model: the first system message replaced, or one prepended
LlmInput(msgs, reasoning) ==
    IF system = <<>> THEN msgs
    ELSE IF SystemIndexes(msgs) # {}
         THEN [msgs EXCEPT ![FirstSystemIndex(msgs)] = SystemMessage(tool_system(reasoning))]
         ELSE <<SystemMessage(tool_system(reasoning))>> \o msgs

\* the channel's list after the node ran: messages[i] = ... writes into it when
\* the node was handed the channel's own list
LlmChannelMessages(msgs, reasoning) ==
    IF aliased /\ system # <<>> /\ SystemIndexes(msgs) # {}
    THEN LlmInput(msgs, reasoning)
    ELSE msgs

\* variant: the reasoning is not handed on
LlmReturnedReasoning_dropped(reasoning) == None

\* 'reasoning_output': reasoning, read from the state at the start of the node
LlmReturnedReasoning(reasoning) == reasoning

call_openai ==
    /\ pc = "llm"
    /\ \E out \in ModelOutputs :
         LET input == LlmInput(messages, reasoning_output)
             call == OracleCall("llm", "model", input, out)
             message == AIMessage(out.content, out.tool_calls)
             new_messages == LlmChannelMessages(messages, reasoning_output) \o <<message>>
         IN IF out.raised THEN (\E e \in OracleErrorTexts : NodeFails(<<call>>, e))
            ELSE
                /\ oracle_calls' = Append(oracle_calls, call)
                /\ messages' = new_messages
                /\ reasoning_output' = LlmReturnedReasoning(reasoning_output)
                /\ tool_history' = tool_history \o tool_history
                /\ steps' = steps + 1
                /\ pc' = Goto(LlmEdge(new_messages), steps + 1)
                /\ error' = AbortText(Goto(LlmEdge(new_messages), steps + 1))
                /\ UNCHANGED <<aliased, next_step, has_used_tools, user_query,
                               input_messages, handler_calls, action_log, registry,
                               appvars, peer_pc, itinvars, fnvars>>

-----------------------------------------------------------------------------
(* Node "action": Agent.take_action *)

\* variant: the registry lookup is not guarded
ResultContent_unguarded(t, o) ==
    IF o.raised THEN <<"Error executing tool: ", o.value>> ELSE <<o.value>>

\* str(result) of one request: unknown name, handler value, or handler exception
ResultContent(t, o) ==
    IF t.name \notin registry THEN <<"Invalid tool name: ", t.name, ". Retry.">>
    ELSE IF o.raised THEN <<"Error executing tool: ", o.value>>
    ELSE <<o.value>>

ToolResult(t, o) == ToolMessage(t.id, t.name, ResultContent(t, o))

\* variant: the try/except is missing, the first exception ends the loop
ToolResults_stop_at_raise(tool_calls, outcomes) ==
    LET bad == { i \in 1..Len(tool_calls) :
                   tool_calls[i].name \in registry /\ outcomes[i].raised }
        n == IF bad = {} THEN Len(tool_calls)
             ELSE (CHOOSE i \in bad : \A j \in bad : i <= j) - 1
    IN [i \in 1..n |-> ToolResult(tool_calls[i], outcomes[i])]

\* variant: results are collected in reverse order
ToolResults_reversed(tool_calls, outcomes) ==
    [i \in 1..Len(tool_calls) |->
        ToolResult(tool_calls[Len(tool_calls) + 1 - i], outcomes[Len(tool_calls) + 1 - i])]

\* the for loop: one ToolMessage per request, in request order
ToolResults(tool_calls, outcomes) ==
    [i \in 1..Len(tool_calls) |-> ToolResult(tool_calls[i], outcomes[i])]

\* is the handler of request t invoked at all?
Invokes(t) == t.name \in registry

\* tool_history.append(...): only after the handler returned
Records(t, o) == Invokes(t) /\ ~o.raised

HistoryEntry(t, o) == [tool |-> t.name, args |-> t.args, result |-> o.value]

RECURSIVE HistoryEntries(_, _)
HistoryEntries(tool_calls, outcomes) ==
    IF tool_calls = <<>> THEN <<>>
    ELSE (IF Records(Head(tool_calls), Head(outcomes))
          THEN <<HistoryEntry(Head(tool_calls), Head(outcomes))>> ELSE <<>>)
         \o HistoryEntries(Tail(tool_calls), Tail(outcomes))

RECURSIVE HandlerInvocations(_, _)
HandlerInvocations(tool_calls, outcomes) ==
    IF tool_calls = <<>> THEN <<>>
    ELSE (IF Invokes(Head(tool_calls))
          THEN <<[call |-> Head(tool_calls), outcome |-> Head(outcomes)]>> ELSE <<>>)
         \o HandlerInvocations(Tail(tool_calls), Tail(outcomes))

\* the outcome of a handler that is never invoked is not a choice
NoOutcome == [raised |-> FALSE, value |-> "route"]

\* variant: an unknown capability name is registered on first use
RegistryAfterAction_autoregister(reg, tool_calls) ==
    reg \cup { tool_calls[i].name : i \in 1..Len(tool_calls) }

\* self.tools is only read by the loop (membership test and lookup)
RegistryAfterAction(reg, tool_calls) == reg

take_action ==
    /\ pc = "action"
    /\ LET tool_calls == Last(messages).tool_calls
       IN \E outcomes \in [1..Len(tool_calls) -> HandlerOutcomes] :
            /\ \A i \in 1..Len(tool_calls) :
                 ~Invokes(tool_calls[i]) => outcomes[i] = NoOutcome
            /\ LET results == ToolResults(tool_calls, outcomes)
                   local_history == tool_history \o HistoryEntries(tool_calls, outcomes)
                   new_messages == messages \o results
               IN /\ messages' = new_messages
                  /\ tool_history' =
                        (IF aliased THEN local_history ELSE tool_history) \o local_history
                  /\ has_used_tools' = TRUE
                  /\ handler_calls' = handler_calls \o HandlerInvocations(tool_calls, outcomes)
                  /\ action_log' = Append(action_log,
                        [requests |-> tool_calls, outcomes |-> outcomes, results |-> results,
                         calls_before |-> Len(oracle_calls)])
                  /\ steps' = steps + 1
                  /\ pc' = Goto(ActionEdge(new_messages), steps + 1)
                  /\ error' = AbortText(Goto(ActionEdge(new_messages), steps + 1))
                  /\ registry' = RegistryAfterAction(registry, tool_calls)
                  /\ UNCHANGED <<aliased, reasoning_output, next_step, user_query,
                                 input_messages, oracle_calls, appvars, peer_pc, itinvars, fnvars>>

-----------------------------------------------------------------------------
(* Node "finalize": Agent.finalize_response *)

\* s[:n] + "..." when len(s) > n
Truncate(tok, n) == IF StrLen(tok) > n THEN <<Prefix(tok, n), "...">> ELSE <<tok>>

PromptEntry(i, tool) ==
    <<ToString(i), ". Used ", tool.tool, " with args: ">> \o Truncate(tool.args, ArgsLimit)
       \o <<"   Result: ">> \o Truncate(tool.result, ResultLimit)

finalization_prompt(query, reasoning, history) ==
    <<"Your job is to respond to this user query about Budapest:">> \o query
       \o <<"Here's my analysis of what they're asking:">> \o reasoning
       \o <<"I've gathered information using these tools:">>
       \o Concat([i \in 1..Len(history) |-> PromptEntry(i, history[i])])
       \o <<"Please create a helpful, informative response">>

final_messages(query, reasoning, history) ==
    <<SystemMessage(system), HumanMessage(finalization_prompt(query, reasoning, history))>>

\* finalize_model has no tools bound: text only, or an exception
FinalizeOutputs == {Returned(<<"final">>, <<>>), Raised}

\* variant: the finalization call is made on every path
SkipsFinalization_never(used) == FALSE

\* if not state.get('has_used_tools', False): return state
SkipsFinalization(used) == ~used

finalize_response ==
    /\ pc = "finalize"
    /\ IF SkipsFinalization(has_used_tools) THEN
           \* return state: every channel is written with its own value
           /\ messages' = messages \o messages
           /\ tool_history' = tool_history \o tool_history
           /\ steps' = steps + 1
           /\ pc' = Goto("END", steps + 1)
           /\ UNCHANGED <<aliased, reasoning_output, next_step, has_used_tools,
                          user_query, input_messages, oracle_calls, handler_calls,
                          action_log, error, registry, appvars, peer_pc, itinvars, fnvars>>
       ELSE
           \E out \in FinalizeOutputs :
             LET call == OracleCall("finalize", "finalize_model",
                            final_messages(user_query, reasoning_output, tool_history), out)
             IN IF out.raised THEN (\E e \in OracleErrorTexts : NodeFails(<<call>>, e))
                ELSE
                    /\ oracle_calls' = Append(oracle_calls, call)
                    /\ messages' = messages \o (messages \o <<AIMessage(out.content, <<>>)>>)
                    /\ tool_history' = tool_history \o tool_history
                    /\ steps' = steps + 1
                    /\ pc' = Goto("END", steps + 1)
                    /\ UNCHANGED <<aliased, reasoning_output, next_step, has_used_tools,
                                   user_query, input_messages, handler_calls, action_log,
                                   error, registry, appvars, peer_pc, itinvars, fnvars>>

-----------------------------------------------------------------------------

Next ==
    \/ reason_about_request
    \/ call_openai
    \/ take_action
    \/ finalize_response

Spec == Init /\ [][Next]_vars

Terminal == {"END", "RAISED", "ABORTED"}

TypeOK ==
    /\ pc \in {"idle", "reason", "llm", "action", "finalize"} \cup Terminal
    /\ app_pc \in {"idle", "rerun", "invoking"}
    /\ steps \in 0..recursion_limit
    /\ aliased \in BOOLEAN
    /\ has_used_tools \in BOOLEAN

-----------------------------------------------------------------------------
(* The chat tab of src/app.py *)

\* the sidebar selectbox and transport_mode_map
transport_mode_map(label) ==
    CASE label = "Tomegkozlekedes" -> "transit"
      [] label = "Gyalogos" -> "walking"
      [] label = "Kerekpar" -> "bicycling"
      [] label = "Auto" -> "driving"

\* the selections a session makes
SelectedModes == {"Tomegkozlekedes", "Gyalogos"}

\* f"{user_prompt} (használj {mode} közlekedési módot)"
context_prompt(user_prompt, label) ==
    user_prompt \o <<" (hasznalj ", transport_mode_map(label), " kozlekedesi modot)">>

\* the agent_input built while the prompt is handled (lines 203-208)
HintedInput(user_prompt, label) ==
    IF label # "Tomegkozlekedes" THEN HumanMessage(context_prompt(user_prompt, label))
    ELSE HumanMessage(user_prompt)

\* agent_input and all_messages of the run that processes the turn
agent_input(session) == Last(session)
all_messages(session) == SubSeq(session, 1, Len(session) - 1) \o <<agent_input(session)>>

\* variant: any non-empty history counts as a pending turn
PendingTurn_any(session) == session # <<>>

\* is a user message waiting for its reply?
PendingTurn(session) == session # <<>> /\ Last(session).type = "human"

\* variant: the first assistant message of the result is selected
FinalResponse_first(msgs) ==
    LET idx == { i \in 1..Len(msgs) : msgs[i].type = "ai" }
    IN IF idx # {} THEN msgs[CHOOSE i \in idx : \A j \in idx : i <= j]
       ELSE AIMessage(<<"I'm sorry, but I encountered an issue processing your request.">>, <<>>)

\* ai_messages[-1], or the fallback when the result holds no assistant message
FinalResponse(msgs) ==
    LET idx == { i \in 1..Len(msgs) : msgs[i].type = "ai" }
    IN IF idx # {} THEN msgs[CHOOSE i \in idx : \A j \in idx : j <= i]
       ELSE AIMessage(<<"I'm sorry, but I encountered an issue processing your request.">>, <<>>)

\* one line of the tool summary
SummaryLine(t) ==
    IF t.name = "attraction_info_tool" THEN <<"Web kereses: ", t.args>>
    ELSE <<"tool ", t.name, "(">> \o Truncate(t.args, SummaryArgsLimit) \o <<")">>

RECURSIVE CallLines(_)
CallLines(tool_calls) ==
    IF tool_calls = <<>> THEN <<>>
    ELSE SummaryLine(Head(tool_calls)) \o CallLines(Tail(tool_calls))

\* tool_summary: the requests of every message of the result that carries some
RECURSIVE ToolSummary(_)
ToolSummary(msgs) ==
    IF msgs = <<>> THEN <<>>
    ELSE (IF HasAttrToolCalls(Head(msgs)) /\ Head(msgs).tool_calls # <<>>
          THEN CallLines(Head(msgs).tool_calls) ELSE <<>>)
         \o ToolSummary(Tail(msgs))

\* the text shown and stored for a run that returned
ResponseText(msgs) ==
    IF ToolSummary(msgs) # <<>>
    THEN FinalResponse(msgs).content \o <<"--- Hasznalt eszkozok:">> \o ToolSummary(msgs)
    ELSE FinalResponse(msgs).content

\* variant: the agent's own message is stored
StoredReply_final(msgs) == FinalResponse(msgs)

\* st.session_state.messages.append(AIMessage(content=...)): a new message that
\* carries the text only
StoredReply(msgs) == AIMessage(ResponseText(msgs), <<>>)

\* the except branch: f"Sajnos hiba történt: {str(e)}"
ErrorText(e) == <<"Sajnos hiba tortent: ">> \o e

\* "reasoning" is no channel of AgentState, so the result never holds the key
ResultHasReasoning == FALSE

\* what a processed turn leaves behind: did graph.invoke raise, with which
\* exception text, and the assistant message appended for it
TurnRecord(failed, e, reply) == [failed |-> failed, error |-> e, reply |-> reply]

\* the run's variables when no run is in progress
RunCleared ==
    /\ pc' = "idle"
    /\ steps' = 0
    /\ messages' = <<>>
    /\ input_messages' = <<>>
    /\ reasoning_output' = None
    /\ next_step' = None
    /\ tool_history' = <<>>
    /\ has_used_tools' = FALSE
    /\ user_query' = <<>>
    /\ oracle_calls' = <<>>
    /\ handler_calls' = <<>>
    /\ action_log' = <<>>
    /\ error' = <<>>

AppInit ==
    /\ app_pc = "idle"
    /\ session_messages = <<>>
    /\ session_reasoning = <<>>
    /\ transport_mode = "Tomegkozlekedes"
    /\ turn_log = <<>>
    /\ peer_pc = "none"
    /\ NoItinerary
    /\ NoCall
    /\ aliased \in BOOLEAN
    /\ registry = tools
    /\ pc = "idle"
    /\ steps = 0
    /\ messages = <<>>
    /\ input_messages = <<>>
    /\ reasoning_output = None
    /\ next_step = None
    /\ tool_history = <<>>
    /\ has_used_tools = FALSE
    /\ user_query = <<>>
    /\ oracle_calls = <<>>
    /\ handler_calls = <<>>
    /\ action_log = <<>>
    /\ error = <<>>

\* "if user_prompt:" -- the prompt is stored, the hinted agent_input is built and
\* st.rerun() ends the script run
chat_input ==
    /\ app_pc = "idle"
    /\ Len(turn_log) < MaxTurns
    /\ \E user_prompt \in Queries, label \in SelectedModes :
         /\ transport_mode' = label
         /\ session_messages' = Append(session_messages, HumanMessage(user_prompt))
    /\ app_pc' = "rerun"
    /\ UNCHANGED <<pc, steps, aliased, messages, reasoning_output, next_step,
                   tool_history, has_used_tools, user_query, input_messages,
                   oracle_calls, handler_calls, action_log, error, registry,
                   session_reasoning, turn_log, peer_pc, itinvars, fnvars>>

\* a script run that finds no pending user message
script_idle ==
    /\ app_pc = "rerun"
    /\ ~PendingTurn(session_messages)
    /\ app_pc' = "idle"
    /\ UNCHANGED <<pc, steps, aliased, messages, reasoning_output, next_step,
                   tool_history, has_used_tools, user_query, input_messages,
                   oracle_calls, handler_calls, action_log, error, registry,
                   session_messages, session_reasoning, transport_mode, turn_log,
                   peer_pc, itinvars, fnvars>>

\* a script run that finds a pending user message: graph.invoke is entered
process_turn ==
    /\ app_pc = "rerun"
    /\ PendingTurn(session_messages)
    /\ app_pc' = "invoking"
    /\ pc' = "reason"
    /\ steps' = 0
    /\ input_messages' = all_messages(session_messages)
    /\ messages' = all_messages(session_messages)
    /\ reasoning_output' = None
    /\ next_step' = None
    /\ tool_history' = <<>>
    /\ has_used_tools' = FALSE
    /\ user_query' = agent_input(session_messages).content
    /\ oracle_calls' = <<>>
    /\ handler_calls' = <<>>
    /\ action_log' = <<>>
    /\ error' = <<>>
    /\ UNCHANGED <<aliased, registry, session_messages, session_reasoning,
                   transport_mode, turn_log, peer_pc, itinvars, fnvars>>

\* graph.invoke came back: the reply is stored and st.rerun() ends the script run
finish_turn ==
    /\ app_pc = "invoking"
    /\ pc \in {"END", "RAISED", "ABORTED"}
    /\ LET reply == IF pc = "END" THEN StoredReply(messages)
                    ELSE AIMessage(ErrorText(error), <<>>)
       IN /\ session_messages' = Append(session_messages, reply)
          /\ session_reasoning' =
                IF pc = "END"
                THEN (IF ResultHasReasoning /\ reasoning_output # <<>>
                      THEN Append(session_reasoning, reasoning_output)
                      ELSE session_reasoning)
                ELSE Append(session_reasoning, <<>>)
          /\ turn_log' = Append(turn_log,
                TurnRecord(pc # "END", error, reply))
    /\ app_pc' = "rerun"
    /\ RunCleared
    /\ UNCHANGED <<aliased, registry, transport_mode, peer_pc, itinvars, fnvars>>

AppNext ==
    \/ chat_input
    \/ script_idle
    \/ process_turn
    \/ finish_turn
    \/ reason_about_request
    \/ call_openai
    \/ take_action
    \/ finalize_response

AppSpec == AppInit /\ [][AppNext]_vars

-----------------------------------------------------------------------------
(* graph.invoke on any ledger its state schema admits *)

\* messages: list[AnyMessage] -- a ledger may open with a system message, the
\* case the replace branch of call_openai is written for
SystemLedgers == { <<SystemMessage(<<"s0">>)>> \o l : l \in InputLedgers }

LedgerInit ==
    /\ pc = "reason"
    /\ steps = 0
    /\ aliased \in BOOLEAN
    /\ input_messages \in InputLedgers \cup SystemLedgers
    /\ messages = input_messages
    /\ reasoning_output = None
    /\ next_step = None
    /\ tool_history = <<>>
    /\ has_used_tools = FALSE
    /\ user_query = Last(input_messages).content
    /\ oracle_calls = <<>>
    /\ handler_calls = <<>>
    /\ action_log = <<>>
    /\ error = <<>>
    /\ registry = tools
    /\ app_pc = "invoking"
    /\ session_messages = input_messages
    /\ session_reasoning = <<>>
    /\ transport_mode = "Tomegkozlekedes"
    /\ turn_log = <<>>
    /\ peer_pc = "none"
    /\ NoItinerary
    /\ NoCall

LedgerSpec == LedgerInit /\ [][Next]_vars

-----------------------------------------------------------------------------
(* A second run of the shared budapest_agent, interleaved at node granularity. *)
(* Its AgentState is a separate object; what its nodes share with the first    *)
(* run is the Agent object: self.tools, self.system and the three models.      *)

PairInit ==
    /\ pc = "reason"
    /\ steps = 0
    /\ aliased \in BOOLEAN
    /\ input_messages \in InputLedgers
    /\ messages = input_messages
    /\ reasoning_output = None
    /\ next_step = None
    /\ tool_history = <<>>
    /\ has_used_tools = FALSE
    /\ user_query = Last(input_messages).content
    /\ oracle_calls = <<>>
    /\ handler_calls = <<>>
    /\ action_log = <<>>
    /\ error = <<>>
    /\ registry = tools
    /\ app_pc = "invoking"
    /\ session_messages = input_messages
    /\ session_reasoning = <<>>
    /\ transport_mode = "Tomegkozlekedes"
    /\ turn_log = <<>>
    /\ peer_pc = "reason"
    /\ NoItinerary
    /\ NoCall

\* what a node of the other run leaves of the first run and of the Agent object
PeerFrame ==
    UNCHANGED <<pc, steps, aliased, messages, reasoning_output, next_step,
                tool_history, has_used_tools, user_query, input_messages,
                oracle_calls, handler_calls, action_log, error, appvars, itinvars, fnvars>>

\* reason_about_request of the other run: reads self.system and the models
peer_reason ==
    /\ peer_pc = "reason"
    /\ peer_pc' \in {"RAISED"} \cup { ReasonEdge(ParseDecision(r)) : r \in ReasonOutputs }
    /\ registry' = registry
    /\ PeerFrame

\* call_openai of the other run
peer_llm ==
    /\ peer_pc = "llm"
    /\ peer_pc' \in { IF out.raised THEN "RAISED"
                      ELSE IF out.tool_calls # <<>> THEN "action" ELSE "finalize" :
                      out \in ModelOutputs }
    /\ registry' = registry
    /\ PeerFrame

\* take_action of the other run: looks its requests up in self.tools
peer_action ==
    /\ peer_pc = "action"
    /\ registry' \in { RegistryAfterAction(registry, tool_calls) : tool_calls \in Batches }
    /\ peer_pc' = "finalize"
    /\ PeerFrame

\* finalize_response of the other run
peer_finalize ==
    /\ peer_pc = "finalize"
    /\ peer_pc' \in { IF out.raised THEN "RAISED" ELSE "END" : out \in FinalizeOutputs }
    /\ registry' = registry
    /\ PeerFrame

PairNext ==
    \/ reason_about_request
    \/ call_openai
    \/ take_action
    \/ finalize_response
    \/ peer_reason
    \/ peer_llm
    \/ peer_action
    \/ peer_finalize

PairSpec == PairInit /\ [][PairNext]_vars

-----------------------------------------------------------------------------
(* create_itinerary (src/itinerary_agent.py) *)

\* what the form, or any other caller, can pass
InterestNames == <<"museums", "food", "history">>
InterestLists == { SubSeq(InterestNames, 1, k) : k \in 0..MaxInterests }
AvailableTimes == (0 - MaxTime)..MaxTime
SpecialRequests == {<<>>, <<"I'd like to see the Parliament">>}

PreferenceSet ==
    [start_location : {<<"Deak Ferenc ter">>}, interests : InterestLists,
     available_time : AvailableTimes, transport_mode : {"transit"},
     special_requests : SpecialRequests]

\* s[:n] of a Python list, n of either sign
Slice(s, n) ==
    IF n >= 0 THEN SubSeq(s, 1, IF n < Len(s) THEN n ELSE Len(s))
    ELSE SubSeq(s, 1, IF Len(s) + n > 0 THEN Len(s) + n ELSE 0)

\* the names an extraction returns, the names nearby search k returns
ExtractedNames(n) == [i \in 1..n |-> "e" \o ToString(i)]
PlaceNames(k, n) == [j \in 1..n |-> "p" \o ToString(k) \o "_" \o ToString(j)]

\* one call made by create_itinerary
Lookup(fn, from, to, names, result) ==
    [fn |-> fn, from |-> from, to |-> to, names |-> names, result |-> result]

\* extract_attraction_names: a list, or the exception of its model call
ExtractOutcomes ==
    { [raised |-> FALSE, names |-> ExtractedNames(n)] : n \in 0..MaxExtracted }
       \cup { [raised |-> TRUE, names |-> <<>>] }

\* get_directions: the API's JSON with routes or without, the error result for a
\* status other than 200, or the exception of requests.get
DirectionsResults == {"routes", "no routes", "error", "raised"}

\* "budapest" not in place.lower()
MentionsBudapest(place) ==
    \E i \in 1..Len(place) : place[i] \in {", Budapest", ", Budapest, Hungary"}

WithCity(place) ==
    IF MentionsBudapest(place) THEN place ELSE place \o <<", Budapest, Hungary">>

\* get_directions(from_place, to_place, mode) with the outcome r
get_directions(from_place, to_place, r) ==
    Lookup("get_directions", WithCity(from_place), WithCity(to_place), <<>>, r)

\* get_local_attractions for the k-th interest: at most PlacesLimit places, the
\* error result, or the exception of requests.get
PlacesOutcomes(k) ==
    { [result |-> "places", names |-> Slice(PlaceNames(k, n), PlacesLimit)] :
          n \in 0..MaxPlaces }
       \cup { [result |-> "error", names |-> <<>>], [result |-> "raised", names |-> <<>>] }

map_interest_to_category(interest) ==
    CASE interest = "museums" -> "museum"
      [] interest = "food" -> "restaurant"
      [] interest = "nature" -> "park"
      [] interest = "shopping" -> "shopping_mall"
      [] interest = "art" -> "art_gallery"
      [] interest = "nightlife" -> "night_club"
      [] interest = "religion" -> "church"
      [] OTHER -> "tourist_attraction"

\* the nearby searches made so far
PlaceLookups == SelectSeq(lookups, LAMBDA l : l.fn = "get_local_attractions")

\* min(int(available_time) // 2 + 1, 5)
max_attractions(available_time) ==
    IF available_time \div 2 + 1 < AttractionCap THEN available_time \div 2 + 1
    ELSE AttractionCap

Defaults == <<"Parlament", "Budai var", "Halaszbastya">>

\* variant: the selection is used as it is
WithDefaults_none(selection) == selection

\* if not selected_attractions: selected_attractions = [defaults]
WithDefaults(selection) == IF selection = <<>> THEN Defaults ELSE selection

\* attraction + ", Budapest"
Destination(attraction) == <<attraction, ", Budapest">>

\* variant: the next route starts where the first one started
NextLocation_stays(current, attraction) == current

\* current_location = attraction + ", Budapest"
NextLocation(current, attraction) == Destination(attraction)

\* variant: the nearby search is tried whatever was extracted
NeedsNearby_always(found) == TRUE

\* if not attractions or len(attractions) < 3
NeedsNearby(found) == found = <<>> \/ Len(found) < NearbyThreshold

\* if "routes" in route_data and route_data["routes"]
HasRoutes(r) == r = "routes"

ItinInit ==
    /\ NoItinerary
    /\ NoCall
    /\ peer_pc = "none"
    /\ app_pc = "idle"
    /\ session_messages = <<>>
    /\ session_reasoning = <<>>
    /\ transport_mode = "Tomegkozlekedes"
    /\ turn_log = <<>>
    /\ aliased = FALSE
    /\ registry = tools
    /\ pc = "idle"
    /\ steps = 0
    /\ messages = <<>>
    /\ input_messages = <<>>
    /\ reasoning_output = None
    /\ next_step = None
    /\ tool_history = <<>>
    /\ has_used_tools = FALSE
    /\ user_query = <<>>
    /\ oracle_calls = <<>>
    /\ handler_calls = <<>>
    /\ action_log = <<>>
    /\ error = <<>>

ItinFrame == UNCHANGED <<runvars, appvars, peer_pc, fnvars>>

\* an exception leaves create_itinerary
ItinRaises(lookup) ==
    /\ it_pc' = "raised"
    /\ lookups' = Append(lookups, lookup)
    /\ UNCHANGED <<preferences, attractions, selected_attractions, routes,
                   current_location, itinerary>>

\* lines 46-53: the preferences are read
read_preferences ==
    /\ it_pc = "idle"
    /\ preferences' \in PreferenceSet
    /\ it_pc' = IF preferences'.special_requests # <<>> THEN "extract" ELSE "nearby"
    /\ UNCHANGED <<attractions, selected_attractions, routes, current_location,
                   lookups, itinerary>>
    /\ ItinFrame

\* lines 56-59: names are extracted from the special requests
extract_requested ==
    /\ it_pc = "extract"
    /\ \E out \in ExtractOutcomes :
         LET lookup == Lookup("extract_attraction_names", <<>>, <<>>, out.names,
                              IF out.raised THEN "raised" ELSE "list")
         IN IF out.raised THEN ItinRaises(lookup)
            ELSE
                /\ attractions' = attractions \o out.names
                /\ lookups' = Append(lookups, lookup)
                /\ it_pc' = "nearby"
                /\ UNCHANGED <<preferences, selected_attractions, routes,
                               current_location, itinerary>>
    /\ ItinFrame

\* lines 62-74: with fewer than three attractions, a route to Hosok tere is
\* looked up for the coordinates of the start
locate_start ==
    /\ it_pc = "nearby"
    /\ IF ~NeedsNearby(attractions) THEN
           /\ it_pc' = "select"
           /\ UNCHANGED <<preferences, attractions, selected_attractions, routes,
                          current_location, lookups, itinerary>>
       ELSE
           \E r \in DirectionsResults :
             LET lookup == get_directions(preferences.start_location,
                                          <<"Hosok tere", ", Budapest">>, r)
             IN IF r = "raised" THEN ItinRaises(lookup)
                ELSE
                    /\ lookups' = Append(lookups, lookup)
                    /\ it_pc' = IF HasRoutes(r) /\ preferences.interests # <<>>
                                THEN "places" ELSE "select"
                    /\ UNCHANGED <<preferences, attractions, selected_attractions,
                                   routes, current_location, itinerary>>
    /\ ItinFrame

\* lines 77-89: one pass of "for interest in interests"
search_nearby ==
    /\ it_pc = "places"
    /\ LET k == Len(PlaceLookups) + 1
           category == map_interest_to_category(preferences.interests[k])
       IN \E out \in PlacesOutcomes(k) :
            LET lookup == Lookup("get_local_attractions", <<>>, <<category>>, out.names,
                                 out.result)
            IN IF out.result = "raised" THEN ItinRaises(lookup)
               ELSE
                   /\ attractions' = attractions \o out.names
                   /\ lookups' = Append(lookups, lookup)
                   /\ it_pc' = IF k = Len(preferences.interests) THEN "select" ELSE "places"
                   /\ UNCHANGED <<preferences, selected_attractions, routes,
                                  current_location, itinerary>>
    /\ ItinFrame

\* lines 92-97: the selection, or the defaults
select_attractions ==
    /\ it_pc = "select"
    /\ selected_attractions' =
          WithDefaults(Slice(attractions, max_attractions(preferences.available_time)))
    /\ it_pc' = "describe"
    /\ UNCHANGED <<preferences, attractions, routes, current_location, lookups,
                   itinerary>>
    /\ ItinFrame

\* lines 100-104: the descriptions are fetched, the route loop is set up
describe_attractions ==
    /\ it_pc = "describe"
    /\ \E raised \in BOOLEAN :
         LET lookup == Lookup("search_llm", <<>>, <<>>, selected_attractions,
                              IF raised THEN "raised" ELSE "descriptions")
         IN IF raised THEN ItinRaises(lookup)
            ELSE
                /\ lookups' = Append(lookups, lookup)
                /\ routes' = <<>>
                /\ current_location' = preferences.start_location
                /\ it_pc' = IF selected_attractions = <<>> THEN "generate" ELSE "route"
                /\ UNCHANGED <<preferences, attractions, selected_attractions, itinerary>>
    /\ ItinFrame

\* lines 106-114: one pass of "for attraction in selected_attractions"
plan_route ==
    /\ it_pc = "route"
    /\ LET attraction == selected_attractions[Len(routes) + 1]
       IN \E r \in DirectionsResults :
            LET lookup == get_directions(current_location, Destination(attraction), r)
            IN IF r = "raised" THEN ItinRaises(lookup)
               ELSE
                   /\ lookups' = Append(lookups, lookup)
                   /\ routes' = Append(routes, lookup)
                   /\ current_location' = NextLocation(current_location, attraction)
                   /\ it_pc' = IF Len(routes) + 1 = Len(selected_attractions)
                               THEN "generate" ELSE "route"
                   /\ UNCHANGED <<preferences, attractions, selected_attractions,
                                  itinerary>>
    /\ ItinFrame

\* lines 117-152: the planning model writes the itinerary
generate_itinerary ==
    /\ it_pc = "generate"
    /\ \E raised \in BOOLEAN :
         LET lookup == Lookup("planning_llm", <<>>, <<>>, selected_attractions,
                              IF raised THEN "raised" ELSE "itinerary")
         IN IF raised THEN ItinRaises(lookup)
            ELSE
                /\ lookups' = Append(lookups, lookup)
                /\ itinerary' = <<"itinerary for ">> \o selected_attractions
                /\ it_pc' = "done"
                /\ UNCHANGED <<preferences, attractions, selected_attractions, routes,
                               current_location>>
    /\ ItinFrame

ItinNext ==
    \/ read_preferences
    \/ extract_requested
    \/ locate_start
    \/ search_nearby
    \/ select_attractions
    \/ describe_attractions
    \/ plan_route
    \/ generate_itinerary

ItinSpec == ItinInit /\ [][ItinNext]_vars

-----------------------------------------------------------------------------
(* Vocabulary of the properties *)

\* the messages a step appended to the ledger
NewMessages == SubSeq(messages', Len(messages) + 1, Len(messages'))

\* the language-model calls a step made
NewOracleCalls == SubSeq(oracle_calls', Len(oracle_calls) + 1, Len(oracle_calls'))

\* the handler invocations a step made
NewHandlerCalls == SubSeq(handler_calls', Len(handler_calls) + 1, Len(handler_calls'))

\* index of the nearest assistant message before position j (0: none)
AssistantBefore(msgs, j) ==
    LET idx == { i \in 1..(j - 1) : msgs[i].type = "ai" }
    IN IF idx = {} THEN 0 ELSE CHOOSE i \in idx : \A k \in idx : k <= i

LastAssistant(msgs) == msgs[AssistantBefore(msgs, Len(msgs) + 1)]

\* needle occurs in hay as a contiguous run of tokens
Contains(hay, needle) ==
    \E k \in 0..(Len(hay) - Len(needle)) : SubSeq(hay, k + 1, k + Len(needle)) = needle

Registered(t) == t.name \in tools

Rank(node) ==
    CASE node = "reason" -> 4
      [] node = "llm" -> 3
      [] node = "action" -> 2
      [] node = "finalize" -> 1
      [] OTHER -> 0

-----------------------------------------------------------------------------
(* C1 *)

C1_ResultsMatchRequests(msgs) ==
    \A j \in 1..Len(msgs) :
        msgs[j].type = "tool" =>
            LET i == AssistantBefore(msgs, j)
            IN /\ i > 0
               /\ \E k \in 1..Len(msgs[i].tool_calls) :
                     msgs[i].tool_calls[k].id = msgs[j].tool_call_id

C1_RequestsAnsweredOnce(msgs) ==
    \A i \in 1..Len(msgs) :
        msgs[i].type = "ai" =>
            \A k \in 1..Len(msgs[i].tool_calls) :
                Cardinality({ j \in (i + 1)..Len(msgs) :
                                /\ msgs[j].type = "tool"
                                /\ msgs[j].tool_call_id = msgs[i].tool_calls[k].id
                                /\ AssistantBefore(msgs, j) = i }) = 1

\* C1: in every ledger a run returns, each tool_result's tool_call_id is the id of
\* a request of the nearest preceding assistant message, and each request of each
\* assistant message (the direct response included) is answered by exactly one
\* tool_result.
C1_OrderingInvariant ==
    pc = "END" => C1_ResultsMatchRequests(messages) /\ C1_RequestsAnsweredOnce(messages)

-----------------------------------------------------------------------------
(* C2 *)

\* C2: every run terminates after a bounded number of node executions: each node
\* execution moves strictly down the order reason > llm > action > finalize >
\* terminal, a node that is due can always run, at most 4 nodes run, and the
\* recursion limit is never reached.
C2_Termination ==
    /\ [][Rank(pc') < Rank(pc)]_vars
    /\ [](/\ steps <= 4
          /\ steps < recursion_limit
          /\ pc # "ABORTED"
          /\ (pc \notin Terminal => ENABLED Next))

\* a run of the full length: reason, llm, action, finalize
C2_Witness == pc = "END" /\ steps = 4 /\ action_log # <<>>

-----------------------------------------------------------------------------
(* C3 *)

C3_Step ==
    LET requests == Last(messages).tool_calls
        outcomes == Last(action_log').outcomes
        results == NewMessages
    IN /\ Len(action_log') = Len(action_log) + 1
       /\ pc' \in {"llm", "finalize"}
       /\ Len(results) = Len(requests)
       /\ \A i \in 1..Len(requests) :
            (Registered(requests[i]) /\ outcomes[i].raised) =>
               /\ results[i] = ToolMessage(requests[i].id, requests[i].name,
                                           <<"Error executing tool: ", outcomes[i].value>>)
               /\ \A j \in (i + 1)..Len(requests) :
                    /\ results[j].type = "tool"
                    /\ results[j].tool_call_id = requests[j].id
                    /\ Registered(requests[j]) =>
                          \E h \in 1..Len(NewHandlerCalls) :
                              NewHandlerCalls[h].call = requests[j]

\* C3: when a handler raises during take_action, the exception becomes an error
\* tool_result of that request, every later request of the batch is still executed
\* and gets its own tool_result, and the graph goes on to its next node.
C3_Containment == [][pc = "action" => C3_Step]_vars

\* a batch whose first handler raised and whose second request was still run
C3_Witness ==
    /\ pc = "finalize"
    /\ action_log # <<>>
    /\ LET a == Last(action_log)
       IN /\ Len(a.requests) = 2
          /\ Registered(a.requests[1]) /\ a.outcomes[1].raised
          /\ Registered(a.requests[2]) /\ ~a.outcomes[2].raised
          /\ Len(handler_calls) = 2

-----------------------------------------------------------------------------
(* C4 *)

C4_Step ==
    LET requests == Last(messages).tool_calls
        results == NewMessages
    IN /\ Len(results) = Len(requests)
       /\ messages' = messages \o results
       /\ \A i \in 1..Len(requests) :
            /\ results[i].type = "tool"
            /\ results[i].tool_call_id = requests[i].id
            /\ results[i].name = requests[i].name

\* C4: take_action returns exactly one tool_result per request of the last
\* assistant message, in request order, each tagged with its request's id, for
\* every mix of successful, raising and unknown-capability requests.
C4_OnePerRequestInOrder == [][pc = "action" => C4_Step]_vars

\* a mixed batch was answered: an unknown capability, then a raising handler,
\* with ids that are not in ascending order
C4_Witness ==
    /\ pc = "finalize"
    /\ action_log # <<>>
    /\ LET a == Last(action_log)
       IN /\ Len(a.requests) = 2
          /\ ~Registered(a.requests[1])
          /\ Registered(a.requests[2]) /\ a.outcomes[2].raised
          /\ a.requests[1].id > a.requests[2].id
          /\ Len(a.results) = 2

-----------------------------------------------------------------------------
(* C5 *)

\* C5: after the execution node has appended the tool_results of a batch, control
\* returns to the decision node (llm), which is consulted again.
C5_ReturnsToDecide == [][pc = "action" => pc' = "llm"]_vars

-----------------------------------------------------------------------------
(* C6 *)

C6_Step ==
    LET requests == Last(messages).tool_calls
        results == NewMessages
    IN /\ pc' \in {"llm", "finalize"}
       /\ Len(results) = Len(requests)
       /\ \A i \in 1..Len(requests) :
            ~Registered(requests[i]) =>
               /\ results[i] = ToolMessage(requests[i].id, requests[i].name,
                                  <<"Invalid tool name: ", requests[i].name, ". Retry.">>)
               /\ \A h \in 1..Len(NewHandlerCalls) :
                     NewHandlerCalls[h].call.id # requests[i].id

\* C6: a request naming a capability that is not registered gets the fixed
\* 'Invalid tool name: <name>. Retry.' tool_result, no handler is invoked for it,
\* and the run continues to its next node.
C6_UnknownCapability == [][pc = "action" => C6_Step]_vars

\* a batch holding only an unknown capability was answered and the run went on
C6_Witness ==
    /\ pc = "finalize"
    /\ action_log # <<>>
    /\ LET a == Last(action_log)
       IN /\ Len(a.requests) = 1
          /\ ~Registered(a.requests[1])
          /\ Last(messages).content = <<"Invalid tool name: ", "bogus_tool", ". Retry.">>
          /\ handler_calls = <<>>

-----------------------------------------------------------------------------
(* C7 *)

FailedContents(a) ==
    { a.results[i].content :
        i \in { k \in 1..Len(a.requests) :
                  ~Registered(a.requests[k]) \/ a.outcomes[k].raised } }

\* C7: after a capability call failed (handler exception or unknown capability),
\* the error text of its tool_result is part of the input of the next
\* language-model call of the run.
C7_ErrorFedBack ==
    \A k \in 1..Len(action_log) :
        LET a == action_log[k]
        IN Len(oracle_calls) > a.calls_before =>
              \A e \in FailedContents(a) :
                  \E m \in 1..Len(oracle_calls[a.calls_before + 1].input) :
                      Contains(oracle_calls[a.calls_before + 1].input[m].content, e)

-----------------------------------------------------------------------------
(* C8 *)

\* C8: no exception raised inside a run leaves the graph's invoke.
C8_NoExceptionEscapes == pc # "RAISED"

-----------------------------------------------------------------------------
(* C9 *)

\* C9: whatever the reasoning model returns (no reasoning block, no decision
\* block, an unrecognised decision value), the run goes on to the decision node or
\* ends normally.
C9_ReasonNeverBlocks ==
    [][(/\ pc = "reason"
        /\ \A k \in 1..Len(NewOracleCalls) : ~NewOracleCalls[k].output.raised)
         => pc' \in {"llm", "END"}]_vars

-----------------------------------------------------------------------------
(* C10 *)

\* the decision node's model call came back without invocation requests
DecidedFinal(k) ==
    /\ oracle_calls[k].node = "llm"
    /\ ~oracle_calls[k].output.raised
    /\ oracle_calls[k].output.tool_calls = <<>>

\* C10: when the decision model returns a response without invocation requests,
\* the run ends with no capability execution, that response is the last assistant
\* message of the ledger, and no further language-model call is made.
C10_FinalAnswer ==
    /\ [](\A k \in 1..Len(oracle_calls) :
            DecidedFinal(k) =>
               /\ k = Len(oracle_calls)
               /\ pc \in {"finalize", "END"}
               /\ handler_calls = <<>>
               /\ action_log = <<>>
               /\ LastAssistant(messages) = AIMessage(oracle_calls[k].output.content, <<>>)
               /\ Last(messages) = LastAssistant(messages))
    /\ [][(pc = "finalize" /\ oracle_calls # <<>> /\ DecidedFinal(Len(oracle_calls)))
            => pc' = "END"]_vars

\* a run that ended right after a decision without requests
C10_Witness ==
    /\ pc = "END"
    /\ oracle_calls # <<>>
    /\ DecidedFinal(Len(oracle_calls))
    /\ steps = 3

-----------------------------------------------------------------------------
(* C12 *)

IsPrefix(a, b) == Len(a) <= Len(b) /\ SubSeq(b, 1, Len(a)) = a

\* C12: the ledger is append-only across the nodes of a run -- after every node
\* the previous ledger is a prefix of the new one, so no entry is replaced,
\* reordered or deleted and the system message synthesized for the decision call
\* is never written into it, also when the ledger already holds a system message.
C12_AppendOnly == [][IsPrefix(messages, messages')]_vars

-----------------------------------------------------------------------------
(* C13 *)

\* the assistant messages the calls of one model returned, in call order
AnswersOf(calls, model) ==
    LET answered == SelectSeq(calls, LAMBDA c : c.model = model /\ ~c.output.raised)
    IN [i \in 1..Len(answered) |->
            AIMessage(answered[i].output.content, answered[i].output.tool_calls)]

\* the messages produced during the run, each once, in the order of production:
\* the assistant messages of the tool-bound model, the tool results of the action
\* node, the assistant message of the finalization model
ProducedMessages ==
    AnswersOf(oracle_calls, "model")
       \o Concat([i \in 1..Len(action_log) |-> action_log[i].results])
       \o AnswersOf(oracle_calls, "finalize_model")

\* C13: the ledger a run returns is the ledger supplied by the caller followed by
\* exactly the messages produced during the run, each once.
C13_ReturnedLedger ==
    (app_pc = "invoking" /\ pc = "END") => messages = input_messages \o ProducedMessages

-----------------------------------------------------------------------------
(* C14 *)

\* positions of the calls of the reasoning model among the calls made so far
ReasonCalls == { i \in 1..Len(oracle_calls) : oracle_calls[i].model = "reason_model" }

\* C14: the reasoning node runs before the decision node, once per run, and the
\* reasoning_output and user_query it produced are what every later node (llm,
\* action, finalize) holds and hands to its model: no later node alters them.
C14_ReasoningFirstAndUnchanged ==
    (app_pc = "invoking" /\ pc \in {"llm", "action", "finalize", "END"}) =>
        /\ ReasonCalls = {1}
        /\ oracle_calls[1].node = "reason"
        /\ reasoning_output = ParseReasoning(oracle_calls[1].output.content)
        /\ user_query = LastUserQuery(input_messages)
        /\ \A i \in 1..Len(oracle_calls) :
             /\ oracle_calls[i].node = "llm" =>
                  Contains(oracle_calls[i].input[1].content,
                           ParseReasoning(oracle_calls[1].output.content))
             /\ oracle_calls[i].node = "finalize" =>
                  Contains(oracle_calls[i].input[2].content,
                           ParseReasoning(oracle_calls[1].output.content))

\* a run went through llm, action and finalize with the reasoning of its first node
C14_Witness ==
    /\ pc = "END"
    /\ has_used_tools
    /\ Len(oracle_calls) = 3
    /\ reasoning_output = <<"why">>

-----------------------------------------------------------------------------
(* C15 *)

\* C15: the execution node runs only directly after the decision node returned an
\* assistant message carrying at least one invocation request -- whenever
\* take_action is about to start, the last language-model call was made by the llm
\* node, it returned, its message carries a request and is the last ledger entry;
\* take_action is never entered from the reason node or with an empty request list.
C15_ActionAfterDecision ==
    (app_pc = "invoking" /\ pc = "action") =>
        /\ oracle_calls # <<>>
        /\ Last(oracle_calls).node = "llm"
        /\ ~Last(oracle_calls).output.raised
        /\ Last(oracle_calls).output.tool_calls # <<>>
        /\ Last(messages) = AIMessage(Last(oracle_calls).output.content,
                                      Last(oracle_calls).output.tool_calls)
        /\ action_log = <<>>

\* take_action has run on the requests of the decision that preceded it
C15_Witness ==
    /\ pc = "finalize"
    /\ Len(action_log) = 1
    /\ action_log[1].requests = Last(oracle_calls).output.tool_calls
    /\ Len(action_log[1].requests) = MaxBatch

-----------------------------------------------------------------------------
(* C17 *)

\* the requests of an execution whose handler was invoked and raised
RaisedRequests(a) ==
    { i \in 1..Len(a.requests) : Registered(a.requests[i]) /\ a.outcomes[i].raised }

\* C17: when a capability handler raises, the content of the resulting
\* tool_result states both the capability's name and the error message.
C17_ErrorContentNamesCapability ==
    \A k \in 1..Len(action_log) :
        \A i \in RaisedRequests(action_log[k]) :
            /\ Contains(action_log[k].results[i].content, <<action_log[k].requests[i].name>>)
            /\ Contains(action_log[k].results[i].content, <<action_log[k].outcomes[i].value>>)

-----------------------------------------------------------------------------
(* C18 *)

\* the decision blocks of a raw reasoning output
DecisionBlocks(content) == SelectSeq(content, LAMBDA b : b.tag = "decision")

\* the branch after the reason node, tabulated on the outputs of its model calls
\* alone: the raw reasoning output and, where one is made, the direct response
BranchOfReasoning(r, direct) ==
    IF r.raised THEN "RAISED"
    ELSE IF DecisionBlocks(r.content) = <<>> THEN "llm"
    ELSE LET body == DecisionBlocks(r.content)[1].body
         IN CASE body = <<"use_tools">> -> "llm"
              [] body \in {<<"respond_directly">>, <<" ", "respond_directly", " ">>} ->
                    IF direct.raised THEN "RAISED" ELSE "END"
              [] OTHER -> "RAISED"

\* the branch after the llm node, tabulated on the decision output alone
BranchOfDecision(out) ==
    IF out.raised THEN "RAISED"
    ELSE IF out.tool_calls = <<>> THEN "finalize"
    ELSE "action"

C18_Step ==
    /\ pc = "reason" =>
         pc' = BranchOfReasoning(NewOracleCalls[1].output,
                                 IF Len(NewOracleCalls) > 1 THEN NewOracleCalls[2].output
                                 ELSE Raised)
    /\ pc = "llm" => pc' = BranchOfDecision(NewOracleCalls[1].output)
    /\ pc = "action" => pc' = "finalize"

\* C18: routing is a deterministic function of the oracle output -- the branch
\* taken at determine_next_step, exists_action and should_continue is fixed by the
\* reasoning output and the decision output of the step, whatever the ledger, the
\* handler outcomes and the rest of the state are.
C18_RoutingDeterminedByOracle == [][C18_Step]_vars

\* a run has passed all three routing points
C18_Witness ==
    /\ pc = "finalize"
    /\ Len(action_log) = 1
    /\ Len(input_messages) > 1
    /\ next_step = <<"use_tools">>

-----------------------------------------------------------------------------
(* C19 *)

\* C19: the capability registry is fixed at construction -- no node adds, removes
\* or replaces an entry, so the set of resolvable capability names is the set of
\* the tools the agent was built with at every step of every run.
C19_RegistryFixed == [][registry' = registry /\ registry = tools]_vars

\* the action node has met a request for a name the registry does not hold, and
\* the registry still does not hold it
C19_Witness ==
    /\ Len(action_log) = 1
    /\ \E i \in 1..Len(action_log[1].requests) :
         /\ action_log[1].requests[i].name = "bogus_tool"
         /\ action_log[1].results[i].content = <<"Invalid tool name: ", "bogus_tool", ". Retry.">>
    /\ "bogus_tool" \notin registry

-----------------------------------------------------------------------------
(* C16 *)

\* the suffix the chat tab builds for a transport mode
Hint(label) == <<" (hasznalj ", transport_mode_map(label), " kozlekedesi modot)">>

\* C16: when a transport mode other than public transit is selected, the user
\* text handed to the agent for the turn carries the transport-mode hint.
C16_HintHandedToAgent ==
    (app_pc = "invoking" /\ transport_mode # "Tomegkozlekedes") =>
        /\ Contains(Last(input_messages).content, Hint(transport_mode))
        /\ Contains(user_query, Hint(transport_mode))

-----------------------------------------------------------------------------
(* C20 *)

\* the processed turns that ended because a language-model call failed
OracleFailedTurns ==
    { i \in 1..Len(turn_log) : turn_log[i].failed /\ turn_log[i].error \in OracleErrorTexts }

\* C20: a failed or timed-out oracle call ends the turn with a fixed apology text
\* as the final assistant message -- the same text whatever the exception was.
C20_FixedApology ==
    \A i, j \in OracleFailedTurns : turn_log[i].reply.content = turn_log[j].reply.content

-----------------------------------------------------------------------------
(* C22 *)

C22_Step ==
    pc = "finalize" =>
        /\ (Len(NewOracleCalls) = 1 /\ NewOracleCalls[1].model = "finalize_model")
              <=> has_used_tools
        /\ ~has_used_tools => NewOracleCalls = <<>>

C22_State ==
    (app_pc = "invoking" /\ pc \in {"reason", "llm", "action", "finalize", "END"}) =>
        /\ has_used_tools <=> action_log # <<>>
        /\ (pc = "finalize" /\ ~has_used_tools) =>
              /\ Last(messages).type = "ai"
              /\ Last(messages).tool_calls = <<>>

\* C22: finalize_response calls the finalization model if and only if
\* has_used_tools is true; has_used_tools is true if and only if take_action ran
\* in this run; and when finalize_response is entered with has_used_tools false,
\* the last ledger message is an assistant message without invocation requests.
C22_FinalizeCallsIffToolsUsed == [][C22_Step /\ C22_State /\ C22_State']_vars

\* finalize_response has run without a model call, on the answer of the decision
C22_Witness ==
    /\ pc = "END"
    /\ ~has_used_tools
    /\ Len(oracle_calls) = 2
    /\ oracle_calls[2].node = "llm"
    /\ Last(messages) = AIMessage(<<"answer">>, <<>>)

-----------------------------------------------------------------------------
(* C23 *)

\* one entry per request of an execution whose handler returned, in request order
SuccessfulEntries(a) ==
    LET ok == SelectSeq([i \in 1..Len(a.requests) |-> i],
                        LAMBDA i : Registered(a.requests[i]) /\ ~a.outcomes[i].raised)
    IN [k \in 1..Len(ok) |->
            [tool |-> a.requests[ok[k]].name, args |-> a.requests[ok[k]].args,
             result |-> a.outcomes[ok[k]].value]]

\* C23: when finalize_response builds the finalization prompt, tool_history holds
\* exactly one entry per invocation request of the run whose handler returned
\* without raising, in execution order and without duplicates; requests that
\* raised or named an unknown capability contribute no entry.
C23_HistoryOncePerSuccess ==
    (app_pc = "invoking" /\ pc = "finalize" /\ has_used_tools) =>
        tool_history = Concat([k \in 1..Len(action_log) |-> SuccessfulEntries(action_log[k])])

-----------------------------------------------------------------------------
(* C24 *)

\* the assistant messages the run's own model calls returned, in call order
RunAnswers == AnswersOf(oracle_calls, "model") \o AnswersOf(oracle_calls, "finalize_model")

\* C24: a run that returns normally ends with a ledger whose last message is an
\* assistant message produced in that run, so the final response the chat tab
\* selects is that message: never an assistant message of an earlier turn, never
\* the "encountered an issue" fallback.
C24_FinalResponseOfThisRun ==
    (app_pc = "invoking" /\ pc = "END") =>
        /\ RunAnswers # <<>>
        /\ Last(messages) = Last(RunAnswers)
        /\ FinalResponse(messages) = Last(messages)
        /\ \A i \in 1..Len(input_messages) : FinalResponse(messages) # input_messages[i]
        /\ FinalResponse(messages).content #
              <<"I'm sorry, but I encountered an issue processing your request.">>

\* a run on a ledger with an earlier turn has returned after using tools
C24_Witness ==
    /\ pc = "END"
    /\ has_used_tools
    /\ \E i \in 1..Len(input_messages) : input_messages[i].type = "ai"
    /\ FinalResponse(messages) = AIMessage(<<"final">>, <<>>)

-----------------------------------------------------------------------------
(* C25 *)

CountOf(session, type) == Cardinality({ i \in 1..Len(session) : session[i].type = type })

C25_Step ==
    \* the agent is invoked for the newest prompt, and only if every earlier
    \* prompt has been processed
    /\ (app_pc = "rerun" /\ app_pc' = "invoking") =>
          /\ Last(session_messages).type = "human"
          /\ CountOf(session_messages, "human") = Len(turn_log) + 1
          /\ session_messages' = session_messages
    \* while the agent runs the history is left alone
    /\ (app_pc = "invoking" /\ app_pc' = "invoking") =>
          session_messages' = session_messages /\ turn_log' = turn_log
    \* the invocation ends, returning or raising, with one assistant message
    /\ (app_pc = "invoking" /\ app_pc' # "invoking") =>
          /\ Len(session_messages') = Len(session_messages) + 1
          /\ SubSeq(session_messages', 1, Len(session_messages)) = session_messages
          /\ Last(session_messages').type = "ai"
          /\ Len(turn_log') = Len(turn_log) + 1
    \* a rerun after the reply does not process the turn again
    /\ (app_pc = "rerun" /\ Last(session_messages).type = "ai") =>
          /\ app_pc' = "idle"
          /\ session_messages' = session_messages
          /\ turn_log' = turn_log

-----------------------------------------------------------------------------
(* C26 *)

ExpectedType(i) == IF i % 2 = 1 THEN "human" ELSE "ai"

\* user and assistant messages alternate from a user message on, none carries
\* invocation requests, none is a tool_result
Alternates(session) ==
    \A i \in 1..Len(session) :
        /\ session[i].type = ExpectedType(i)
        /\ session[i].tool_calls = <<>>

-----------------------------------------------------------------------------
(* C27 *)

\* C27: after every processed turn, successful or failed, the session's reasoning
\* list has exactly one entry per processed user message, in turn order, so that
\* reasoning[i // 2] is the reasoning of the user message at history index i.
C27_ReasoningPerTurn ==
    app_pc \in {"idle", "rerun"} => Len(session_reasoning) = Len(turn_log)

-----------------------------------------------------------------------------
(* C21 *)

\* What the run yields when executed alone, computed from the ledger supplied,
\* the outputs of its model calls and the outcomes of its handlers.
SoloAnswer(k) == AIMessage(oracle_calls[k].output.content, oracle_calls[k].output.tool_calls)

SoloReasoning == ParseReasoning(oracle_calls[1].output.content)

\* the tool_result of request i of execution a, resolved against the tools the
\* agent was constructed with
SoloResult(a, i) ==
    ToolMessage(a.requests[i].id, a.requests[i].name,
        IF a.requests[i].name \notin tools
        THEN <<"Invalid tool name: ", a.requests[i].name, ". Retry.">>
        ELSE IF a.outcomes[i].raised THEN <<"Error executing tool: ", a.outcomes[i].value>>
        ELSE <<a.outcomes[i].value>>)

SoloResults(a) == [i \in 1..Len(a.requests) |-> SoloResult(a, i)]

\* after the reason node on the use_tools path; after the llm node
SoloReasoned == input_messages \o input_messages
SoloDecided == SoloReasoned \o <<SoloAnswer(2)>>

SoloLedger ==
    IF oracle_calls[2].node = "reason"
    THEN (IF aliased THEN input_messages \o <<SoloAnswer(2)>> ELSE input_messages)
            \o input_messages \o <<SoloAnswer(2)>>
    ELSE IF action_log = <<>> THEN SoloDecided \o SoloDecided
    ELSE LET executed == SoloDecided \o SoloResults(action_log[1])
         IN executed \o executed \o <<SoloAnswer(3)>>

SoloHistory ==
    IF action_log = <<>> THEN <<>>
    ELSE LET entries == SuccessfulEntries(action_log[1])
             kept == (IF aliased THEN entries ELSE <<>>) \o entries
         IN kept \o kept

\* C21: two runs of the shared agent on distinct AgentState objects, interleaved
\* at node granularity, do not interfere -- the Agent object holds no per-run
\* mutable state, so the ledger, tool_history and reasoning_output a run ends
\* with are those it produces alone with the same oracle and handler outputs.
C21_NoInterference ==
    /\ registry = tools
    /\ pc = "END" =>
          /\ messages = SoloLedger
          /\ tool_history = SoloHistory
          /\ reasoning_output = SoloReasoning

\* both runs have finished, the first after an execution that met a name the
\* registry does not hold and a handler that raised
C21_Witness ==
    /\ pc = "END"
    /\ peer_pc = "END"
    /\ Len(action_log) = 1
    /\ \E i, j \in 1..Len(action_log[1].requests) :
          /\ action_log[1].requests[i].name = "bogus_tool"
          /\ action_log[1].outcomes[j].raised


-----------------------------------------------------------------------------
(* attraction_info_tool and extract_attraction_names (src/agent.py) *)

\* the attraction lists a tool call can carry
AskedNames == {"Parlament", "Budai var"}
AskedLists == UNION { [1..n -> AskedNames] : n \in 0..MaxAsked }

\* the texts extract_attraction_names can be given: words separated by blanks;
\* "Buda" is a capital followed by letters, "I" a capital alone, "to" neither
Words == {"Buda", "to", "I"}
Texts == UNION { [1..n -> Words] : n \in 0..MaxWords }

\* [A-Z][a-zA-Z...]+ matches the word
IsCapitalised(word) == word = "Buda"

\* re.findall of the pattern: the maximal runs of capitalised words, in order
RECURSIVE Runs(_, _)
Runs(text, run) ==
    IF text = <<>> THEN (IF run = <<>> THEN <<>> ELSE <<run>>)
    ELSE IF IsCapitalised(Head(text)) THEN Runs(Tail(text), Append(run, Head(text)))
    ELSE (IF run = <<>> THEN <<>> ELSE <<run>>) \o Runs(Tail(text), <<>>)

findall(text) == Runs(text, <<>>)

\* s[:n] for n >= 0
Take(s, n) == SubSeq(s, 1, IF n < Len(s) THEN n ELSE Len(s))

\* what llm.invoke does for extract_attraction_names: it raises, or returns
\* content that is a JSON array, another JSON value, or no JSON at all
ExtractOutputs ==
    { [raised |-> FALSE, json |-> "array", value |-> [i \in 1..n |-> "Parlament"]] :
          n \in 0..MaxListed }
       \cup { [raised |-> FALSE, json |-> j, value |-> <<>>] :
                 j \in {"object", "scalar", "invalid"} }
       \cup { [raised |-> TRUE, json |-> "none", value |-> <<>>] }

\* what gpt4_model.invoke does for attraction_info_tool
InfoOutputs ==
    { [raised |-> FALSE, text |-> <<"Parlament: the seat of the National Assembly.">>] }
       \cup { [raised |-> TRUE, text |-> e] : e \in OracleErrorTexts }

Calls ==
    { [fn |-> "attraction_info_tool", arg |-> a] : a \in AskedLists }
       \cup { [fn |-> "extract_attraction_names", arg |-> t] : t \in Texts }

FnInit ==
    /\ NoItinerary
    /\ fn_pc = "called"
    /\ fn_call \in Calls
    /\ fn_oracle = <<>>
    /\ fn_result = <<>>
    /\ peer_pc = "none"
    /\ app_pc = "idle"
    /\ session_messages = <<>>
    /\ session_reasoning = <<>>
    /\ transport_mode = "Tomegkozlekedes"
    /\ turn_log = <<>>
    /\ aliased = FALSE
    /\ registry = tools
    /\ pc = "idle"
    /\ steps = 0
    /\ messages = <<>>
    /\ input_messages = <<>>
    /\ reasoning_output = None
    /\ next_step = None
    /\ tool_history = <<>>
    /\ has_used_tools = FALSE
    /\ user_query = <<>>
    /\ oracle_calls = <<>>
    /\ handler_calls = <<>>
    /\ action_log = <<>>
    /\ error = <<>>

FnFrame == UNCHANGED <<runvars, appvars, peer_pc, itinvars, fn_call>>

\* variant: the model is asked whatever the list holds
NoneSpecified_never(asked) == FALSE

\* if not attractions or len(attractions) == 0
NoneSpecified(asked) == asked = <<>> \/ Len(asked) = 0

\* the dict attraction_info_tool returns
InfoResult(info, source, asked) ==
    [info |-> info, source |-> source, attractions |-> asked]

\* the early return has no "attractions" key
NoInfoResult == [info |-> <<"No attractions specified.">>, source |-> "web search"]

attraction_info_tool ==
    /\ fn_pc = "called"
    /\ fn_call.fn = "attraction_info_tool"
    /\ IF NoneSpecified(fn_call.arg) THEN
           /\ fn_result' = NoInfoResult
           /\ fn_oracle' = fn_oracle
       ELSE
           \E out \in InfoOutputs :
             /\ fn_oracle' = Append(fn_oracle, [model |-> "gpt-4o-search-preview",
                                                asked |-> fn_call.arg,
                                                raised |-> out.raised])
             /\ fn_result' =
                   IF out.raised
                   THEN InfoResult(<<"Error retrieving information: ">> \o out.text,
                                   "error", fn_call.arg)
                   ELSE InfoResult(out.text, "web search", fn_call.arg)
    /\ fn_pc' = "returned"
    /\ FnFrame

\* the value extract_attraction_names returns when llm.invoke returned out
ExtractedFrom(text, out) ==
    IF out.json = "array" THEN out.value
    ELSE IF out.json = "invalid" /\ findall(text) # <<>> THEN Take(findall(text), FallbackLimit)
    ELSE <<>>

extract_attraction_names ==
    /\ fn_pc = "called"
    /\ fn_call.fn = "extract_attraction_names"
    /\ \E out \in ExtractOutputs :
         /\ fn_oracle' = Append(fn_oracle, [model |-> "gpt-4o-mini", asked |-> fn_call.arg,
                                            raised |-> out.raised, json |-> out.json,
                                            value |-> out.value])
         /\ IF out.raised THEN
                /\ fn_pc' = "raised"
                /\ fn_result' = fn_result
            ELSE
                /\ fn_pc' = "returned"
                /\ fn_result' = ExtractedFrom(fn_call.arg, out)
    /\ FnFrame

FnNext == attraction_info_tool \/ extract_attraction_names

FnSpec == FnInit /\ [][FnNext]_vars

\* the selection of create_itinerary has been made
Selected == it_pc \in {"describe", "route", "generate", "done"}

\* C28: create_itinerary selects at most min(available_time // 2 + 1, 5)
\* attractions, hence never more than 5, for every integer available_time and
\* every list of candidates.
C28_AtMostFive ==
    Selected =>
        /\ Len(selected_attractions) <= AttractionCap
        /\ selected_attractions # Defaults =>
              Len(selected_attractions) <=
                 (IF preferences.available_time \div 2 + 1 < AttractionCap
                  THEN preferences.available_time \div 2 + 1 ELSE AttractionCap)


\* attractions[:max_attractions], from the candidates and the available time
Sliced == Slice(attractions, max_attractions(preferences.available_time))

\* the lists handed to the description search
DescribedLists ==
    { lookups[i].names : i \in { j \in 1..Len(lookups) : lookups[j].fn = "search_llm" } }

\* C29: the attraction list used for descriptions and route planning is never
\* empty; when nothing was extracted, found or selected it is exactly the three
\* defaults, and the defaults are used only in that case.
C29_NeverEmptyDefaultsIffNone ==
    /\ Selected =>
          /\ selected_attractions # <<>>
          /\ Sliced = <<>> => selected_attractions = <<"Parlament", "Budai var", "Halaszbastya">>
          /\ Sliced # <<>> => selected_attractions = Sliced
    /\ \A names \in DescribedLists : names # <<>> /\ names = selected_attractions
    /\ it_pc = "route" => Len(routes) < Len(selected_attractions)
    /\ it_pc \in {"generate", "done"} => routes # <<>>

\* the defaults were described and routed although candidates had been found
C29_Witness ==
    /\ it_pc = "done"
    /\ attractions # <<>>
    /\ Sliced = <<>>
    /\ selected_attractions = Defaults
    /\ Len(routes) = 3


\* C30: create_itinerary plans exactly one route per selected attraction, in
\* selection order, as a chain: the first route starts at start_location and
\* each later route starts at the destination of the previous one.
C30_RouteChain ==
    /\ Len(routes) <= Len(selected_attractions)
    /\ it_pc \in {"generate", "done"} => Len(routes) = Len(selected_attractions)
    /\ \A i \in 1..Len(routes) :
          /\ routes[i].fn = "get_directions"
          /\ routes[i].to = <<selected_attractions[i], ", Budapest">>
          /\ routes[i].from = IF i = 1
                              THEN preferences.start_location \o <<", Budapest, Hungary">>
                              ELSE routes[i - 1].to

\* an itinerary over five attractions, one of whose routes came back as an error
C30_Witness ==
    /\ it_pc = "done"
    /\ Len(selected_attractions) = 5
    /\ Len(routes) = 5
    /\ routes[2].result = "error"
    /\ routes[3].from = <<selected_attractions[2], ", Budapest">>


\* the names extract_attraction_names returned, <<>> when it was not called
Extracted ==
    LET calls == SelectSeq(lookups, LAMBDA l : l.fn = "extract_attraction_names")
    IN IF calls = <<>> THEN <<>> ELSE calls[1].names

\* positions in the log of the directions lookup towards Hosok tere
StartLookups ==
    { i \in 1..Len(lookups) :
        lookups[i].fn = "get_directions" /\ lookups[i].to = <<"Hosok tere", ", Budapest">> }

\* the lookup towards Hosok tere came back without a route
StartNotLocated ==
    \E i \in StartLookups : lookups[i].result \in {"error", "no routes"}

\* C31: the nearby-place search runs only when fewer than 3 attractions were
\* extracted and only if the directions lookup returned at least one route; a
\* lookup that returns an error result or no routes does not fail the
\* itinerary, which continues with the attractions gathered so far or the
\* defaults.
C31_NearbyOnlyWhenNeededAndLocated ==
    /\ \A j \in 1..Len(lookups) :
          lookups[j].fn = "get_local_attractions" =>
             /\ Len(Extracted) < 3
             /\ \E i \in StartLookups : i < j /\ lookups[i].result = "routes"
    /\ StartNotLocated =>
          /\ attractions = Extracted
          /\ it_pc # "nearby" /\ it_pc # "places"
          /\ it_pc = "raised" =>
                /\ lookups[Len(lookups)].result = "raised"
                /\ Len(lookups) \notin StartLookups
          /\ Selected =>
                selected_attractions =
                   IF Slice(Extracted, max_attractions(preferences.available_time)) = <<>>
                   THEN Defaults
                   ELSE Slice(Extracted, max_attractions(preferences.available_time))

\* an itinerary was written from the two extracted names after the lookup
\* towards Hosok tere had returned the error result
C31_Witness ==
    /\ it_pc = "done"
    /\ Len(Extracted) = 2
    /\ preferences.interests # <<>>
    /\ \E i \in StartLookups : lookups[i].result = "error"
    /\ selected_attractions = Extracted


\* C32: attraction_info_tool never raises: with an empty attraction list it
\* returns the fixed 'No attractions specified.' result without calling the
\* oracle, and when the oracle call raises it returns a result with source
\* 'error' that carries the requested attraction list.
C32_InfoToolNeverRaises ==
    fn_call.fn = "attraction_info_tool" =>
        /\ fn_pc # "raised"
        /\ (fn_pc = "returned" /\ fn_call.arg = <<>>) =>
              /\ fn_result = [info |-> <<"No attractions specified.">>,
                              source |-> "web search"]
              /\ fn_oracle = <<>>
        /\ (fn_pc = "returned" /\ fn_call.arg # <<>>) =>
              /\ Len(fn_oracle) = 1
              /\ fn_oracle[1].raised =>
                    /\ fn_result.source = "error"
                    /\ fn_result.attractions = fn_call.arg

\* two attractions were asked about and the model call raised
C32_Witness ==
    /\ fn_call.fn = "attraction_info_tool"
    /\ Len(fn_call.arg) = 2
    /\ fn_pc = "returned"
    /\ fn_oracle # <<>>
    /\ fn_oracle[1].raised
    /\ fn_result.source = "error"

\* C33: extract_attraction_names always returns a list: the parsed value when
\* the oracle output is a JSON array, at most 3 capitalised names taken from
\* the input text when the output is not valid JSON, and the empty list
\* otherwise.
C33_AlwaysReturnsAList ==
    fn_call.fn = "extract_attraction_names" =>
        /\ fn_pc # "raised"
        /\ fn_pc = "returned" =>
              /\ fn_oracle[1].json = "array" => fn_result = fn_oracle[1].value
              /\ fn_oracle[1].json = "invalid" =>
                    /\ Len(fn_result) <= 3
                    /\ \A i \in 1..Len(fn_result) :
                          /\ fn_result[i] # <<>>
                          /\ \A k \in 1..Len(fn_result[i]) : fn_result[i][k] = "Buda"
                          /\ \E j \in 0..(Len(fn_call.arg) - Len(fn_result[i])) :
                                SubSeq(fn_call.arg, j + 1, j + Len(fn_result[i])) = fn_result[i]
              /\ fn_oracle[1].json \in {"object", "scalar"} => fn_result = <<>>

=============================================================================
